---- MODULE Spec2Model ----
(***************************************************************************)
(* houseback: an Express server with health-check, signup and signin      *)
(* endpoints over one PostgreSQL users table.                              *)
(*                                                                         *)
(* A Node process runs every callback to completion, so one action is one  *)
(* synchronous stretch of a handler: from the request's arrival to its     *)
(* first await, and from the completion of an awaited operation (the hash, *)
(* the INSERT) to the next await or to the handler's end.                  *)
(***************************************************************************)
EXTENDS Integers, Sequences, FiniteSets, TLC

VARIABLES server, build, schema, rows, serial, now, logs, req, overlap

vars == <<server, build, schema, rows, serial, now, logs, req, overlap>>

(* ------------------------------ bounds -------------------------------- *)

\* Number of HTTP requests in one behaviour.
MaxReq == 2
\* Last value of the wall clock.
MaxClock == 1

Reqs == 1..MaxReq

(* ------------------------------ values -------------------------------- *)
\* A JavaScript / SQL value.  t is its type, v its characters (one string
\* per character, so that lengths are lengths), n its number.  A bcrypt
\* hash is the symbolic term of its salt and its preimage: nothing reads
\* the preimage back out of it except Verify.

Str(s) == [t |-> "string", v |-> s, n |-> 0]
Txt(w) == [t |-> "string", v |-> <<w>>, n |-> 0]
Undefined == [t |-> "undefined", v |-> <<>>, n |-> 0]
Null == [t |-> "null", v |-> <<>>, n |-> 0]
Num(k) == [t |-> "number", v |-> <<>>, n |-> k]
Date(k) == [t |-> "date", v |-> <<>>, n |-> k]
Uuid(k) == [t |-> "uuid", v |-> <<>>, n |-> k]
Bcrypt(salt, plain) == [t |-> "bcrypt", v |-> plain, n |-> salt]
\* An Error object, named by its code.
Err(code) == [t |-> "error", v |-> <<code>>, n |-> 0]

\* No value: a response not sent, a handler that has not returned.
Nil == [t |-> "nil"]

\* `${x}` in a template literal: a string is itself, undefined reads
\* "undefined", null reads "null".
ToText(x) ==
    CASE x.t = "undefined" -> Txt("undefined")
      [] x.t = "null"      -> Txt("null")
      [] OTHER             -> x

(* ------------------------------ inputs -------------------------------- *)

EmailA == <<"a", "@", "x", ".", "c", "o">>
EmailB == <<"b", "@", "x", ".", "c", "o">>
EmailBad == <<"a", "x", ".", "c", "o">>
NameBob == <<"b", "o", "b">>
NameAnna == <<"a", "n", "n", "a">>
NameAb == <<"a", "b">>
PwGood == <<"s", "e", "c", "r", "e", "t", "1", "2">>
PwOther == <<"h", "u", "n", "t", "e", "r", "4", "2">>
PwShort == <<"s", "e", "c", "r", "e", "t", "1">>

Body(e, nm, p) == [email |-> e, name |-> nm, password |-> p]

\* req.body of a POST /signup.
SignupBodies ==
    { Body(Str(EmailA), Str(NameBob), Str(PwGood)),
      Body(Str(EmailA), Str(NameAnna), Str(PwOther)),
      Body(Str(EmailB), Str(NameBob), Str(PwGood)),
      Body(Str(EmailBad), Str(NameAb), Str(PwShort)),
      Body(Undefined, Undefined, Str(PwGood)) }

\* req.body of a POST /signin.
SigninBodies ==
    { Body(Str(EmailA), Undefined, Str(PwGood)),
      Body(Undefined, Undefined, Str(PwGood)) }

(* ---------------------------- validation ------------------------------ *)

Lower ==
    {"a", "b", "c", "d", "e", "f", "g", "h", "i", "j", "k", "l", "m",
     "n", "o", "p", "q", "r", "s", "t", "u", "v", "w", "x", "y", "z"}
Digit == {"0", "1", "2", "3", "4", "5", "6", "7", "8", "9"}

\* The positions of character c in s.
Positions(s, c) == {i \in 1..Len(s) : s[i] = c}

\* The local part: [A-Za-z0-9_'+\-\.]*[A-Za-z0-9_+-], not starting with a
\* dot and with no two dots in a row.
IsLocalPart(s) ==
    /\ Len(s) >= 1
    /\ s[1] # "."
    /\ \A i \in 1..Len(s) : s[i] \in Lower \cup Digit \cup {"_", "'", "+", "-", "."}
    /\ s[Len(s)] \in Lower \cup Digit \cup {"_", "+", "-"}
    /\ \A i \in 1..(Len(s) - 1) : ~(s[i] = "." /\ s[i + 1] = ".")

\* The domain: ([A-Za-z0-9][A-Za-z0-9\-]*\.)+[A-Za-z]{2,}
IsDomain(s) ==
    LET dots == Positions(s, ".")
        last == IF dots = {} THEN 0 ELSE CHOOSE i \in dots : \A j \in dots : j <= i
    IN  /\ dots # {}
        /\ Len(s) - last >= 2
        /\ \A i \in (last + 1)..Len(s) : s[i] \in Lower
        /\ \A i \in 1..last :
              IF s[i] = "."
              THEN i > 1 /\ s[i - 1] # "."
              ELSE /\ s[i] \in Lower \cup Digit \cup {"-"}
                   /\ (i = 1 \/ s[i - 1] = ".") => s[i] # "-"

\* z.email(): the value is a string matching zod's e-mail pattern.
IsEmail(x) ==
    /\ x.t = "string"
    /\ LET ats == Positions(x.v, "@")
       IN  /\ Cardinality(ats) = 1
           /\ LET at == CHOOSE i \in ats : TRUE
              IN  /\ IsLocalPart(SubSeq(x.v, 1, at - 1))
                  /\ IsDomain(SubSeq(x.v, at + 1, Len(x.v)))

MinNameLen == 3
MinPasswordLen == 8

\* The issues registerServiceSchema.safeParse reports: zod checks every
\* field of the object and collects one issue per failing field.
SchemaIssues(b) ==
    {f \in {"email", "name", "password"} :
        CASE f = "email"    -> ~IsEmail(b.email)
          [] f = "name"     -> ~(b.name.t = "string" /\ Len(b.name.v) >= MinNameLen)
          [] f = "password" -> ~(b.password.t = "string" /\ Len(b.password.v) >= MinPasswordLen)}

\* validatedData.success
SafeParseAlways(b) == TRUE
SafeParseSuccess(b) == SchemaIssues(b) = {}

(* ------------------------------ storage ------------------------------- *)
\* The users table is the one found in the database when the server
\* starts.  "none": no table yet.  "connection": the table testDbConnection
\* creates.  "migration": the table the migration creates.  "documented":
\* the table the endpoint documentation describes.

Schemas == {"connection", "migration", "documented"}

Columns(s) ==
    CASE s = "connection" -> {"id", "email", "password", "created_at"}
      [] s = "migration"  -> {"id", "name", "email", "created_at", "updated_at"}
      [] s = "documented" -> {"id", "name", "email", "password", "created_at", "updated_at"}
      [] OTHER            -> {}

\* SERIAL / increments() ids are integers drawn from a sequence; the
\* documented id is a UUID the application supplies.
IdType(s) == IF s = "documented" THEN "uuid" ELSE "number"

\* Columns filled by the database when the statement names no value.
HasDefault(s, c) ==
    \/ c = "id" /\ IdType(s) = "number"
    \/ c \in {"created_at", "updated_at"}

\* NOT NULL columns.
NotNull(s) == Columns(s) \ {"created_at", "updated_at"}

DefaultValue(c, seq, clock) == IF c = "id" THEN Num(seq) ELSE Date(clock)

\* The row the statement would store: the named values, defaults elsewhere.
BuildRow(s, payload, seq, clock) ==
    [c \in Columns(s) |->
        IF c \in DOMAIN payload THEN payload[c]
        ELSE IF HasDefault(s, c) THEN DefaultValue(c, seq, clock)
        ELSE Null]

\* The table after a statement whose row a constraint turned away: neither
\* the plain INSERT nor ON CONFLICT (email) DO NOTHING touches a stored row.
OnConflictUpdate(rws, row) ==
    {u \in rws : u.email # row.email /\ u.id # row.id} \cup {row}
OnConflict(rws, row) == rws

\* The UNIQUE constraint on email (and the primary key on id).
UniqueOff(rws, row) == FALSE
UniqueViolation(rws, row) ==
    \E u \in rws : u.email = row.email \/ u.id = row.id

\* INSERT INTO users: the outcome and the table and sequence after it.
\* doNothing is ON CONFLICT (email) DO NOTHING; fault is a storage fault
\* (connection lost, timeout) that fails the statement whatever it is.
DbInsert(s, rws, seq, clock, payload, doNothing, fault) ==
    LET row == BuildRow(s, payload, seq, clock)
        usesSeq == "id" \notin DOMAIN payload /\ IdType(s) = "number"
        seq2 == IF usesSeq THEN seq + 1 ELSE seq
        Fail(code) == [outcome |-> "error", code |-> code, rows |-> rws, serial |-> seq]
    IN  CASE fault -> Fail("ECONNRESET")
          [] s = "none" -> Fail("42P01")
          [] \E c \in DOMAIN payload : payload[c].t = "undefined" -> Fail("UNDEFINED_BINDING")
          [] ~(DOMAIN payload \subseteq Columns(s)) -> Fail("42703")
          [] row.id.t \notin {IdType(s), "null"} -> Fail("22P02")
          [] \E c \in NotNull(s) : row[c].t = "null" ->
                [outcome |-> "error", code |-> "23502", rows |-> rws, serial |-> seq2]
          [] UniqueViolation(rws, row) ->
                IF doNothing
                THEN [outcome |-> "nothing", code |-> "0",
                      rows |-> OnConflict(rws, row), serial |-> seq2]
                ELSE [outcome |-> "error", code |-> "23505",
                      rows |-> OnConflict(rws, row), serial |-> seq2]
          [] OTHER ->
                [outcome |-> "inserted", code |-> "0", rows |-> rws \cup {row}, serial |-> seq2]

\* CREATE TABLE IF NOT EXISTS users (...): a table that exists is kept.
CreateTableIfNotExists(s) == IF s = "none" THEN "connection" ELSE s

(* ------------------------------ hashing ------------------------------- *)

\* The salt bcrypt draws for a call: 128 random bits, taken here to be
\* fresh, one salt per call, named by the request that makes the call.
FreshSalt(r) == r

\* bcrypt.hash(password, 10) with the salt drawn for the call.
HashUnsalted(plain, salt) == Bcrypt(0, plain.v)
HashPassword(plain, salt) == Bcrypt(salt, plain.v)

\* bcrypt.compare(plain, hash)
Verify(plain, hash) == hash.t = "bcrypt" /\ plain.t = "string" /\ hash.v = plain.v

(* ------------------------------ logging ------------------------------- *)

\* One line of the logger: its level, the fixed text of its template
\* literal and the values interpolated into it, in order.  (The line's
\* timestamp prefix, a reading of the clock to the minute, is not kept.)
Line(level, text, args) == [level |-> level, text |-> text, args |-> args]

FieldOrder ==
    <<"message", "status", "id", "name", "email", "password", "created_at", "updated_at">>

\* The values of an object's own fields, in FieldOrder.
Values(o) ==
    LET ks == SelectSeq(FieldOrder, LAMBDA k : k \in DOMAIN o)
    IN  [i \in 1..Len(ks) |-> o[ks[i]]]

\* prettify(object): the text of the object, every value of it included,
\* those of a nested data object too.
Prettify(o) ==
    Values(o) \o
        (IF "data" \notin DOMAIN o THEN <<>>
         ELSE IF "t" \in DOMAIN o.data THEN <<o.data>>
         ELSE Values(o.data))

(* ------------------------------ requests ------------------------------ *)

\* A request nobody has sent yet.  sends counts the calls of res.json, res
\* is the response on the wire, ret what the handler returned; hashCalls
\* and inserts count the calls of hashPassword and the INSERTs issued;
\* outcome and code are how the INSERT ended.
InitReq ==
    [pc |-> "idle", route |-> "none", body |-> Nil,
     sends |-> 0, res |-> Nil, ret |-> Nil,
     payload |-> Nil, hashCalls |-> 0, inserts |-> 0, outcome |-> "none", code |-> "none"]

\* The request as it arrives: its route and its body.
Arrive(r, route, body) == [req[r] EXCEPT !.route = route, !.body = body]

\* Some request is being handled: it has arrived and its handler, or the
\* statement its handler issued, has not finished.
InFlight == \E x \in Reqs : req[x].pc \notin {"idle", "done"}

\* overlap records whether any request has arrived while another was being
\* handled; while it is FALSE the requests ran one after the other.
Arrival == overlap' = (overlap \/ InFlight)

\* res.status(code).json(body): the first call sends the response; a later
\* one changes nothing on the wire and throws ERR_HTTP_HEADERS_SENT.
Send(q, code, body) ==
    IF q.sends = 0
    THEN [q EXCEPT !.sends = 1, !.res = [status |-> code, body |-> body]]
    ELSE [q EXCEPT !.sends = @ + 1]

\* !x
Falsy(x) == x.t \in {"undefined", "null"} \/ (x.t = "string" /\ x.v = <<>>)

\* Requests are numbered in the order they arrive: r is the next one.
Fresh(r) == req[r].pc = "idle" /\ \A x \in 1..(r - 1) : req[x].pc # "idle"

\* What res.json returns: the response object itself.
ResObject == [t |-> "res"]

\* A rejected promise nobody handles: the process warns and goes on, or
\* (the default since Node 15) exits.
AfterUnhandledRejection == {"listening", "exited"}

(* ------------------------------ start-up ------------------------------ *)

Builds ==
    { [signup |-> "inline", controller |-> 0],
      [signup |-> "handler", controller |-> 1],
      [signup |-> "handler", controller |-> 2] }

Init ==
    /\ server = "starting"
    /\ build \in Builds
    /\ schema \in {"none", "migration", "documented"}
    /\ rows = {}
    /\ serial = 1
    /\ now = 0
    /\ logs = {}
    /\ req = [r \in Reqs |-> InitReq]
    /\ overlap = FALSE

\* The rows of users after CREATE TABLE IF NOT EXISTS: those of the table
\* that exists, none in a table just created.
DropAndCreate(s, rws) == {}
RowsAfterCreate(s, rws) == IF s = "none" THEN {} ELSE rws

\* The start-up of server.ts: testDbConnection, then app.listen.  When the
\* CREATE TABLE statement fails the process exits with code 1.
StartWithoutTest ==
    /\ server = "starting"
    /\ server' = "listening"
    /\ logs' = logs \cup {Line("success", "Server is running on port ${PORT}", <<>>)}
    /\ UNCHANGED <<build, schema, rows, serial, now, req, overlap>>
Start ==
    /\ server = "starting"
    /\ \E ok \in BOOLEAN :
          IF ok
          THEN /\ schema' = CreateTableIfNotExists(schema)
               /\ rows' = RowsAfterCreate(schema, rows)
               /\ server' = "listening"
               /\ logs' = logs \cup
                    { Line("success", "Database connection successful", <<>>),
                      Line("success", "Database connection tested successfully", <<>>),
                      Line("success", "Server is running on port ${PORT}", <<>>) }
          ELSE /\ schema' = schema
               /\ rows' = rows
               /\ server' = "exited"
               /\ logs' = logs
    /\ UNCHANGED <<build, serial, now, req, overlap>>

\* The wall clock advances.  The clock is read when registerService builds
\* its row and again when it builds its result, and a reading is only ever
\* compared with another one: the steps of the clock that can tell two
\* readings apart are those taken while an INSERT is awaited.
Tick ==
    /\ now < MaxClock
    /\ \E r \in Reqs : req[r].pc = "insert"
    /\ now' = now + 1
    /\ UNCHANGED <<server, build, schema, rows, serial, logs, req, overlap>>

(* ------------------------------ server.ts ----------------------------- *)

\* GET /
GetRoot(r) ==
    /\ server = "listening"
    /\ Fresh(r)
    /\ Arrival
    /\ logs' = logs \cup {Line("success", "Server is running", <<>>)}
    /\ req' = [req EXCEPT ![r] =
                  Send([Arrive(r, "GET /", Nil) EXCEPT !.pc = "done"],
                       200, [message |-> Txt("Server is on")])]
    /\ UNCHANGED <<server, build, schema, rows, serial, now>>

\* GET /health
GetHealthProbing(r) ==
    /\ server = "listening"
    /\ Fresh(r)
    /\ Arrival
    /\ logs' = logs \cup {Line("success", "Health check endpoint hit", <<>>)}
    /\ req' = [req EXCEPT ![r] =
                  Send([Arrive(r, "GET /health", Nil) EXCEPT !.pc = "done"],
                       IF Columns(schema) = Columns("documented") THEN 200 ELSE 503,
                       [message |-> Txt("Server is healthy")])]
    /\ UNCHANGED <<server, build, schema, rows, serial, now>>
GetHealth(r) ==
    /\ server = "listening"
    /\ Fresh(r)
    /\ Arrival
    /\ logs' = logs \cup {Line("success", "Health check endpoint hit", <<>>)}
    /\ req' = [req EXCEPT ![r] =
                  Send([Arrive(r, "GET /health", Nil) EXCEPT !.pc = "done"],
                       200, [message |-> Txt("Server is healthy")])]
    /\ UNCHANGED <<server, build, schema, rows, serial, now>>

\* The line both POST handlers of server.ts log before anything else.
CredentialsLine(b) ==
    Line("warning", "Email:${email}, Password:${password}",
         <<ToText(b.email), ToText(b.password)>>)

\* The 406 of a request without an email: sent, and the handler goes on.
EmailRequired(q, b) ==
    IF Falsy(b.email) THEN Send(q, 406, [message |-> Txt("Email is required")]) ELSE q

\* POST /signin: a synchronous handler.  A second res.json throws inside
\* it; Express catches that and, the headers being sent, drops the socket.
Signin(r, b) ==
    /\ server = "listening"
    /\ Fresh(r)
    /\ Arrival
    /\ logs' = logs \cup
          { CredentialsLine(b),
            Line("success", "Signin endpoint hit", <<>>) }
    /\ req' = [req EXCEPT ![r] =
                  Send(EmailRequired([Arrive(r, "POST /signin", b) EXCEPT !.pc = "done"], b),
                       200, [message |-> Txt("Signin endpoint is working")])]
    /\ UNCHANGED <<server, build, schema, rows, serial, now>>

\* POST /signup of server.ts, up to the handler's return: the INSERT is
\* issued and not awaited, and the 200 follows at once.  After a 406 the
\* 200 throws inside the async handler: an unhandled rejection.
InlineSignup(r, b) ==
    /\ server = "listening"
    /\ build.signup = "inline"
    /\ Fresh(r)
    /\ Arrival
    /\ logs' = logs \cup
          { Line("success", "Signup endpoint hit", <<>>),
            CredentialsLine(b) }
    /\ LET q0 == [Arrive(r, "POST /signup", b) EXCEPT
                     !.pc = "query", !.inserts = 1,
                     !.payload = [email |-> b.email, password |-> b.password]]
           q1 == EmailRequired(q0, b)
       IN  /\ req' = [req EXCEPT ![r] =
                        Send(q1, 200, [message |-> Txt("Signup endpoint is working")])]
           /\ IF q1.sends > 0
              THEN server' \in AfterUnhandledRejection
              ELSE server' = server
    /\ UNCHANGED <<build, schema, rows, serial, now>>

\* The INSERT of the inline handler completes, and its .then callback
\* runs when it succeeded.  There is no .catch: a failed INSERT is an
\* unhandled rejection.
InlineQueryDone(r) ==
    /\ server = "listening"
    /\ req[r].pc = "query"
    /\ \E fault \in BOOLEAN :
          LET out == DbInsert(schema, rows, serial, now, req[r].payload, TRUE, fault)
          IN  /\ rows' = out.rows
              /\ serial' = out.serial
              /\ req' = [req EXCEPT ![r].pc = "done", ![r].outcome = out.outcome,
                                    ![r].code = out.code, ![r].payload = Nil]
              /\ IF out.outcome = "error"
                 THEN /\ logs' = logs
                      /\ server' \in AfterUnhandledRejection
                 ELSE /\ logs' = logs \cup
                           { Line("success",
                                  "User with email ${email} created successfully. Result: ${JSON.stringify(result)}",
                                  <<ToText(req[r].body.email), Txt("undefined")>>),
                             Line("warning", "Database operation result: ${JSON.stringify(result)}",
                                  <<Txt("undefined")>>) }
                      /\ server' = server
    /\ UNCHANGED <<build, schema, now, overlap>>

(* ------------------- routes/auth/signup.ts and below ------------------ *)

\* validatedData.error.message: the text of the issues zod collected.
ZodMessage(issues) ==
    Str(SelectSeq(<<"email", "name", "password">>, LAMBDA f : f \in issues))

\* An object a handler returns instead of sending it.
Plain(code, message) == [status |-> Num(code), message |-> Txt(message)]

\* signupHandler, and registerController up to its first await.  Without a
\* body the handler returns an object; with an invalid one the controller
\* answers 400 (first version) or returns an object (second version);
\* otherwise registerService starts and awaits hashPassword.
SignupHandler(r, b) ==
    /\ server = "listening"
    /\ build.signup = "handler"
    /\ Fresh(r)
    /\ Arrival
    /\ logs' = logs \cup {Line("success", "Signup endpoint hit", <<>>)}
    /\ LET q == Arrive(r, "POST /signup", b)
       IN  req' = [req EXCEPT ![r] =
              IF b = Nil
              THEN [q EXCEPT !.pc = "done", !.ret = Plain(401, "Houve um erro")]
              ELSE IF ~SafeParseSuccess(b)
              THEN IF build.controller = 1
                   THEN [Send(q, 400, [message |-> ZodMessage(SchemaIssues(b))])
                            EXCEPT !.pc = "done", !.ret = ResObject]
                   ELSE [q EXCEPT !.pc = "done", !.ret = Plain(400, "Dados invalidos")]
              ELSE [q EXCEPT !.pc = "hash", !.hashCalls = @ + 1]]
    /\ UNCHANGED <<server, build, schema, rows, serial, now>>

\* The row registerService inserts.
PayloadPlain(r, b, hashed, clock) ==
    [id |-> Uuid(r), name |-> b.name, email |-> b.email, password |-> b.password,
     created_at |-> Date(clock), updated_at |-> Date(clock)]
Payload(r, b, hashed, clock) ==
    [id |-> Uuid(r), name |-> b.name, email |-> b.email, password |-> hashed,
     created_at |-> Date(clock), updated_at |-> Date(clock)]

\* hashPassword settles.  It is awaited outside registerService's try, so
\* its failure reaches the controller's catch; on success registerService
\* builds the row and awaits the INSERT.
HashDone(r) ==
    /\ server = "listening"
    /\ req[r].pc = "hash"
    /\ \E ok \in BOOLEAN :
          IF ok
          THEN /\ req' = [req EXCEPT ![r].pc = "insert", ![r].inserts = @ + 1,
                             ![r].payload =
                                 Payload(r, req[r].body,
                                         HashPassword(req[r].body.password, FreshSalt(r)), now)]
               /\ logs' = logs
          ELSE IF build.controller = 1
          THEN /\ req' = [req EXCEPT ![r] =
                             [Send(req[r], 500, [message |-> Txt("Erro ao cadastrar usuario")])
                                 EXCEPT !.pc = "done", !.ret = ResObject]]
               /\ logs' = logs
          ELSE /\ req' = [req EXCEPT ![r].pc = "done",
                             ![r].ret = Plain(500, "Erro ao cadastrar usuario")]
               /\ logs' = logs \cup
                    {Line("warning", "Error registering user: ${error}", <<Err("HASH")>>)}
    /\ UNCHANGED <<server, build, schema, rows, serial, now, overlap>>

\* What registerService returns once the INSERT has settled.
ServiceResultWithPassword(r, b, out, clock) ==
    IF out.outcome = "inserted"
    THEN [message |-> Txt("Usuario criado com sucesso"), status |-> Num(201),
          data |-> [id |-> Uuid(r), name |-> b.name, email |-> b.email,
                    password |-> b.password,
                    created_at |-> Date(clock), updated_at |-> Date(clock)]]
    ELSE [message |-> Txt("Erro ao criar usuario"), status |-> Num(500), data |-> Null]
ServiceResultLeaking(r, b, out, clock) ==
    IF out.outcome = "inserted"
    THEN [message |-> Txt("Usuario criado com sucesso"), status |-> Num(201),
          data |-> [id |-> Uuid(r), name |-> b.name, email |-> b.email,
                    created_at |-> Date(clock), updated_at |-> Date(clock)]]
    ELSE [message |-> Str(<<"Erro ao criar usuario", out.code>>), status |-> Num(500),
          data |-> Null]
ServiceResult(r, b, out, clock) ==
    IF out.outcome = "inserted"
    THEN [message |-> Txt("Usuario criado com sucesso"), status |-> Num(201),
          data |-> [id |-> Uuid(r), name |-> b.name, email |-> b.email,
                    created_at |-> Date(clock), updated_at |-> Date(clock)]]
    ELSE [message |-> Txt("Erro ao criar usuario"), status |-> Num(500), data |-> Null]

\* The HTTP status the first registerController answers a settled
\* registerService with.
ControllerStatus(user) == 201

\* The INSERT of registerService settles; registerService returns, and the
\* controller logs the result and answers (first version) or returns it
\* (second version).
InsertDone(r) ==
    /\ server = "listening"
    /\ req[r].pc = "insert"
    /\ \E fault \in BOOLEAN :
          LET out == DbInsert(schema, rows, serial, now, req[r].payload, FALSE, fault)
              user == ServiceResult(r, req[r].body, out, now)
              q == [req[r] EXCEPT !.pc = "done", !.outcome = out.outcome,
                                  !.code = out.code, !.payload = Nil]
          IN  /\ rows' = out.rows
              /\ serial' = out.serial
              /\ logs' = logs \cup
                    { IF out.outcome = "inserted"
                      THEN Line("info", "${prettify(data)}", Prettify(user.data))
                      ELSE Line("error", "error ${err}", <<Err(out.code)>>),
                      Line("success", "User created:${prettify(user)}", Prettify(user)) }
              /\ req' = [req EXCEPT ![r] =
                           IF build.controller = 1
                           THEN [Send(q, ControllerStatus(user), user) EXCEPT !.ret = ResObject]
                           ELSE [q EXCEPT !.ret = user]]
    /\ UNCHANGED <<server, build, schema, now, overlap>>

(* --------------------------- specification ---------------------------- *)

Next ==
    \/ Start
    \/ Tick
    \/ \E r \in Reqs : GetRoot(r)
    \/ \E r \in Reqs : GetHealth(r)
    \/ \E r \in Reqs, b \in SigninBodies : Signin(r, b)
    \/ \E r \in Reqs, b \in SignupBodies : InlineSignup(r, b)
    \/ \E r \in Reqs : InlineQueryDone(r)
    \/ \E r \in Reqs, b \in SignupBodies \cup {Nil} : SignupHandler(r, b)
    \/ \E r \in Reqs : HashDone(r)
    \/ \E r \in Reqs : InsertDone(r)

Spec == Init /\ [][Next]_vars

(* ----------------------------- observations -------------------------- *)

Signups == {r \in Reqs : req[r].route = "POST /signup"}
Done(r) == req[r].pc = "done"

\* The HTTP status the client received; 0 while it has received nothing.
HttpStatus(r) == IF req[r].res = Nil THEN 0 ELSE req[r].res.status

\* The rows stored for an e-mail address.
RowsOf(email) == {u \in rows : u.email = email}

(* -------------------------------- C1 --------------------------------- *)

\* C1: after any sequence and any interleaving of signup requests, through
\* the inline POST /signup handler or through registerService, the users
\* table holds at most one row for any e-mail address.
C1_EmailUnique == \A u, w \in rows : u.email = w.email => u = w

\* Two signups for one address have both had their INSERT executed, and
\* the first of them stored its row.
C1_Witness ==
    \E r1, r2 \in Signups :
        /\ r1 # r2
        /\ req[r1].outcome = "inserted"
        /\ req[r2].outcome \in {"nothing", "error"}
        /\ req[r1].body.email = req[r2].body.email
        /\ Cardinality(RowsOf(req[r1].body.email)) = 1

(* -------------------------------- C2 --------------------------------- *)

\* What a signup reports to its client, read off the HTTP status as the
\* interface defines it.
Reported(r) ==
    CASE HttpStatus(r) = 201 -> "Created"
      [] HttpStatus(r) = 400 -> "ValidationFailed"
      [] HttpStatus(r) = 409 -> "Conflict"
      [] HttpStatus(r) = 500 -> "InternalError"
      [] OTHER               -> "none"

\* The signups for an address whose INSERT was issued.
Registering(email) ==
    {r \in Signups : req[r].inserts > 0 /\ req[r].body.email = email}

\* The constraint decided the INSERT: the row was stored, or it was turned
\* away as a duplicate; no storage fault, no other error.
Decided(r) ==
    \/ req[r].outcome \in {"inserted", "nothing"}
    \/ req[r].outcome = "error" /\ req[r].code = "23505"

\* C2: when N signups with the same e-mail run concurrently against an
\* empty table, exactly one of them reports Created and the other N-1
\* report Conflict.
C2_OneCreatedOthersConflict ==
    \A e \in {Str(EmailA), Str(EmailB)} :
        LET G == Registering(e)
        IN  (/\ Cardinality(G) = MaxReq
             /\ overlap
             /\ \A r \in G : Done(r) /\ Decided(r))
            => /\ Cardinality({r \in G : Reported(r) = "Created"}) = 1
               /\ \A r \in G : Reported(r) \in {"Created", "Conflict"}

(* -------------------------------- C3 --------------------------------- *)

\* C3: registering the same e-mail twice in sequence, the second call with
\* any name and password, yields Created for the first call and Conflict
\* for the second: an outcome unlike success and unlike a storage failure.
C3_CreatedThenConflict ==
    \A r1, r2 \in Signups :
        (/\ r1 < r2
         /\ ~overlap
         /\ Done(r1) /\ Done(r2)
         /\ req[r1].outcome = "inserted"
         /\ req[r2].inserts > 0 /\ Decided(r2)
         /\ req[r1].body.email = req[r2].body.email)
        => /\ Reported(r1) = "Created"
           /\ Reported(r2) = "Conflict"

(* -------------------------------- C4 --------------------------------- *)

\* C4: no request is answered twice: on every path of the POST /signup and
\* POST /signin handlers, the path without an email included, at most one
\* response is sent for the request.
C4_AtMostOneResponse == \A r \in Reqs : req[r].sends <= 1

(* -------------------------------- C5 --------------------------------- *)

\* C5: every signup through signupHandler and registerController receives
\* a response: once the handler has returned, whatever the path (no body,
\* validation failure, service success, service failure, thrown error), a
\* response has been sent.
\* (Stated for the requests that carry a body, which every wiring of the
\* route delivers.)
C5_EverySignupAnswered ==
    \A r \in Signups :
        (build.signup = "handler" /\ Done(r) /\ req[r].body # Nil) => req[r].res # Nil

(* -------------------------------- C6 --------------------------------- *)

\* hashPassword rejected: it was called and no INSERT followed.
HashFailed(r) == Done(r) /\ req[r].hashCalls > 0 /\ req[r].inserts = 0

\* C6: the HTTP status of a signup response is determined by the outcome
\* of the registration: 201 when a user was created, 400 when validation
\* failed, 409 when the e-mail already exists, 500 when hashing or
\* persistence failed; a registration whose INSERT failed is never
\* answered 201.
C6_StatusFollowsOutcome ==
    \A r \in Signups :
        (build.signup = "handler" /\ Done(r) /\ req[r].body # Nil /\ req[r].res # Nil)
        => /\ SchemaIssues(req[r].body) # {} => HttpStatus(r) = 400
           /\ req[r].outcome = "inserted" => HttpStatus(r) = 201
           /\ req[r].outcome = "error" => HttpStatus(r) # 201
           /\ (req[r].outcome = "error" /\ req[r].code = "23505") => HttpStatus(r) = 409
           /\ (req[r].outcome = "error" /\ req[r].code # "23505") => HttpStatus(r) = 500
           /\ HashFailed(r) => HttpStatus(r) = 500

(* -------------------------------- C7 --------------------------------- *)

\* C7: in every reachable state the password column of every users row
\* holds the hasher's output for the submitted password and never the
\* submitted plaintext, whichever signup path created the row.
C7_StoredPasswordIsHash ==
    \A u \in rows :
        "password" \in DOMAIN u =>
            \E r \in Signups :
                /\ req[r].outcome = "inserted"
                /\ req[r].body.email = u.email
                /\ u.password # req[r].body.password
                /\ Verify(req[r].body.password, u.password)

(* -------------------------------- C8 --------------------------------- *)

\* The values a log line carries.
LoggedValues == UNION {{l.args[i] : i \in 1..Len(l.args)} : l \in logs}

\* C8: no log line emitted while handling a signup or signin request
\* contains the plaintext password that was submitted.
C8_NoPasswordInLogs ==
    \A r \in Reqs :
        (req[r].body # Nil /\ req[r].body.password.t = "string")
        => req[r].body.password \notin LoggedValues

(* -------------------------------- C9 --------------------------------- *)

\* The signups handled by signupHandler whose body passes the schema.
ValidSignups ==
    {r \in Signups :
        build.signup = "handler" /\ req[r].body # Nil /\ SchemaIssues(req[r].body) = {}}

\* The record registerService returned: the controller sends it as the
\* response body (first version) or returns it (second version).
ServiceRecord(r) == IF build.controller = 1 THEN req[r].res.body ELSE req[r].ret

\* Every value of an object, those of its data object included.
ObjectValues(o) ==
    {o[k] : k \in DOMAIN o \ {"data"}} \cup
        (IF "data" \in DOMAIN o /\ "t" \notin DOMAIN o.data
         THEN {o.data[k] : k \in DOMAIN o.data} ELSE {})

\* Every field name of an object, those of its data object included.
ObjectKeys(o) ==
    DOMAIN o \cup
        (IF "data" \in DOMAIN o /\ "t" \notin DOMAIN o.data THEN DOMAIN o.data ELSE {})

\* The object has no password field and none of its values is the
\* plaintext password of request r or a hash.
NoSecret(o, r) ==
    /\ ObjectKeys(o) \cap {"password", "password_hash"} = {}
    /\ \A x \in ObjectValues(o) : x # req[r].body.password /\ x.t # "bcrypt"

\* Nobody else has registered the e-mail of request r.
NotYetRegistered(r) ==
    \A u \in rows : u.email = req[r].body.email => u.id = Uuid(r)

C10_InvalidInputTouchesNothing ==
    \A r \in Signups :
        (build.signup = "handler" /\ req[r].body # Nil /\ SchemaIssues(req[r].body) # {})
        => /\ req[r].hashCalls = 0
           /\ req[r].inserts = 0
           /\ req[r].outcome = "none"
           /\ req[r].pc \in {"idle", "done"}
           /\ \A u \in rows : u.id # Uuid(r)

\* An invalid signup has been handled while the table held a row.
C10_Witness ==
    \E r \in Signups :
        /\ build.signup = "handler" /\ Done(r) /\ req[r].body # Nil
        /\ SchemaIssues(req[r].body) = {"email", "name", "password"}
        /\ rows # {}

(* -------------------------------- C11 -------------------------------- *)

\* What the handler delivers to its caller: the body of the response when
\* one was sent, the object it returned otherwise.
Delivered(r) == IF req[r].res # Nil THEN req[r].res.body ELSE req[r].ret

\* The text names field f.
Names(text, f) == \E i \in 1..Len(text.v) : text.v[i] = f

\* C11: when an input violates several validation rules at once, the
\* validation failure delivered to the caller names every violated field
\* rule (email, name, password), not only the first one and not a single
\* generic message.
C11_FailureNamesEveryRule ==
    \A r \in Signups :
        (build.signup = "handler" /\ Done(r) /\ req[r].body # Nil
            /\ SchemaIssues(req[r].body) # {})
        => \A f \in SchemaIssues(req[r].body) : Names(Delivered(r).message, f)

(* -------------------------------- C12 -------------------------------- *)

\* The rule of the interface: a well-formed e-mail address, a name of
\* three characters or more, a password of eight or more.
WellFormed(b) ==
    /\ IsEmail(b.email)
    /\ b.name.t = "string" /\ Len(b.name.v) >= 3
    /\ b.password.t = "string" /\ Len(b.password.v) >= 8

\* The signup went on to its side effects: the hasher was called or an
\* INSERT was issued for it.
Accepted(r) == req[r].hashCalls > 0 \/ req[r].inserts > 0

\* C12: a signup input is accepted by validation if and only if its email
\* is well-formed, its name has length at least 3 and its password has
\* length at least 8; a name of length 2 or a password of length 7 is
\* rejected, a name of length 3 and a password of length 8 are accepted.
C12_AcceptedIffWellFormed ==
    \A r \in Signups :
        (Done(r) /\ req[r].body # Nil) => (Accepted(r) <=> WellFormed(req[r].body))

(* -------------------------------- C13 -------------------------------- *)

\* The call ended in a failed outcome: the status it delivered, in the
\* object when the object names one and on the response otherwise, is 400
\* or 500.
Failed(r) ==
    IF "status" \in DOMAIN Delivered(r)
    THEN Delivered(r).status \in {Num(400), Num(500)}
    ELSE HttpStatus(r) \in {400, 500}

\* C13: within one register call the steps run in the order validate,
\* hash, persist, each at most once; a failure in any step ends the call
\* in a failed outcome without running a later step or re-running an
\* earlier one, so at most one insert is attempted per request.
C13_StepsInOrderAtMostOnce ==
    \A r \in Signups :
        /\ req[r].hashCalls <= 1
        /\ req[r].inserts <= 1
        /\ (build.signup = "handler" /\ req[r].body # Nil) =>
              /\ req[r].hashCalls > 0 => SchemaIssues(req[r].body) = {}
              /\ req[r].inserts > 0 => req[r].hashCalls = 1 /\ req[r].pc \in {"insert", "done"}
              /\ req[r].pc = "hash" => req[r].hashCalls = 1 /\ req[r].inserts = 0
              /\ req[r].pc \in {"hash", "insert"} => req[r].outcome = "none"
              /\ req[r].outcome # "none" => req[r].inserts = 1
              /\ (Done(r) /\ SchemaIssues(req[r].body) # {}) =>
                    req[r].hashCalls = 0 /\ req[r].inserts = 0 /\ Failed(r)
              /\ HashFailed(r) => req[r].outcome = "none" /\ Failed(r)
              /\ (Done(r) /\ req[r].outcome = "error") => Failed(r)

\* One call has failed in its last step and another in its second: the
\* first ran hash and insert once each, the second ran no insert.
C13_Witness ==
    \E r1, r2 \in Signups :
        /\ build.signup = "handler"
        /\ Done(r1) /\ req[r1].hashCalls = 1 /\ req[r1].inserts = 1
        /\ req[r1].outcome = "error"
        /\ HashFailed(r2)

(* -------------------------------- C14 -------------------------------- *)

\* The fields of the public view of a user.
PublicFields == {"id", "name", "email", "created_at", "updated_at"}

\* C14: the record returned by a successful registration is the stored
\* record without the password: its id, name, email, created_at and
\* updated_at equal the values of the row that was inserted.
C14_ReturnedRecordIsStoredRow ==
    \A r \in ValidSignups :
        (Done(r) /\ req[r].outcome = "inserted")
        => /\ DOMAIN ServiceRecord(r).data = PublicFields
           /\ \E u \in rows :
                 /\ u.id = Uuid(r)
                 /\ \A k \in PublicFields : ServiceRecord(r).data[k] = u[k]

(* -------------------------------- C15 -------------------------------- *)

\* C15: a successful POST /signup is answered with status 201 and a body
\* whose top-level fields are id (a string), name and email equal to the
\* submitted name and email, created_at and updated_at, with no password
\* field.
C15_CreatedResponseShape ==
    \A r \in Signups :
        (Done(r) /\ req[r].outcome = "inserted")
        => /\ req[r].res # Nil
           /\ HttpStatus(r) = 201
           /\ DOMAIN req[r].res.body = PublicFields
           /\ req[r].res.body.id.t \in {"string", "uuid"}
           /\ req[r].res.body.name = req[r].body.name
           /\ req[r].res.body.email = req[r].body.email

(* -------------------------------- C16 -------------------------------- *)

\* C16: once a users row exists, no HTTP request (signup with the same or
\* another email, signin, health check) changes or deletes it: every
\* column of an existing row, including password and updated_at, keeps
\* its creation-time value.
C16_RowsNeverChange == [][\A u \in rows : u \in rows']_vars

\* A row was stored, and afterwards a signup for the same e-mail address
\* with another name and password has run its INSERT to the end.
C16_Witness ==
    \E r1, r2 \in Signups :
        /\ r1 < r2 /\ ~overlap
        /\ req[r1].outcome = "inserted"
        /\ Done(r2) /\ req[r2].outcome \in {"nothing", "error"}
        /\ req[r2].code \in {"0", "23505"}
        /\ req[r2].body.email = req[r1].body.email
        /\ req[r2].body.password # req[r1].body.password
        /\ Cardinality(rows) = 1

(* -------------------------------- C17 -------------------------------- *)

\* The signups of signupHandler that ended on a caught error: hashPassword
\* rejected (caught by the controller) or the INSERT failed (caught by
\* registerService).
CaughtError ==
    {r \in Signups :
        /\ build.signup = "handler" /\ Done(r) /\ req[r].body # Nil
        /\ HashFailed(r) \/ req[r].outcome = "error"}

C18_BodyStatusIsHttpStatus ==
    \A r \in Signups :
        (req[r].res # Nil /\ "status" \in DOMAIN req[r].res.body)
        => req[r].res.body.status = Num(req[r].res.status)

(* -------------------------------- C19 -------------------------------- *)

\* The rows registerService stored: those whose id is the UUID it drew.
ServiceRows == {u \in rows : u.id.t = "uuid"}

\* C19: if the hasher fails during a registration, the request is
\* answered with status 500 and no row is inserted; no row is ever stored
\* with a missing or partial hash.
\* (The answer is the response of the first registerController and the
\* object the second one returns.)
C19_HashFailureIs500AndNoRow ==
    /\ \A r \in Signups :
          (build.signup = "handler" /\ HashFailed(r)) =>
              /\ build.controller = 1 => HttpStatus(r) = 500 /\ req[r].sends = 1
              /\ build.controller = 2 => req[r].ret.status = Num(500)
              /\ req[r].outcome = "none"
              /\ \A u \in rows : u.id # Uuid(r)
    /\ \A u \in ServiceRows :
          /\ "password" \in DOMAIN u
          /\ u.password.t = "bcrypt"
          /\ \E r \in ValidSignups :
                u.id = Uuid(r) /\ Verify(req[r].body.password, u.password)

\* One registration has stored its row, and the hasher has failed for
\* another, which was answered 500.
C19_Witness ==
    \E r1, r2 \in Signups :
        /\ build.controller = 1
        /\ HashFailed(r1) /\ HttpStatus(r1) = 500
        /\ req[r2].outcome = "inserted"
        /\ ServiceRows # {}

(* -------------------------------- C20 -------------------------------- *)

\* The users table of the interface.
UsersColumns == {"id", "name", "email", "password", "created_at", "updated_at"}

\* C20: the users table that exists once the server has started (created
\* by testDbConnection or by the migration) has the columns id, name,
\* email (unique), password, created_at and updated_at, so the row
\* registerService builds for a valid new user is accepted by the insert.
C20_TableTakesServiceRow ==
    /\ (server = "listening" /\ schema \in {"connection", "migration"}) =>
          Columns(schema) = UsersColumns
    /\ \A r \in ValidSignups :
          (Done(r) /\ req[r].inserts > 0 /\ req[r].code # "ECONNRESET"
              /\ NotYetRegistered(r))
          => req[r].outcome = "inserted"

(* -------------------------------- C21 -------------------------------- *)

\* The hashes hashPassword has returned for request r and that the
\* program still holds: in the row it is about to insert, or in the row
\* it stored.
Held(r) ==
    (IF req[r].payload # Nil /\ req[r].payload.password.t = "bcrypt"
     THEN {req[r].payload.password} ELSE {})
    \cup {u.password : u \in {w \in ServiceRows : w.id = Uuid(r)}}

\* The plaintexts submitted.
Plaintexts == {Str(PwGood), Str(PwOther), Str(PwShort)}

InvalidSignups ==
    {r \in Signups :
        build.signup = "handler" /\ req[r].body # Nil /\ SchemaIssues(req[r].body) # {}}

GetResponse(route) ==
    [status |-> 200,
     body |-> [message |-> IF route = "GET /" THEN Txt("Server is on")
                           ELSE Txt("Server is healthy")]]

\* C23: GET / always responds 200 with {"message":"Server is on"} and GET
\* /health always responds 200 with {"message":"Server is healthy"}, in
\* every database state, and neither request reads or changes the users
\* table.
C23_GetRoutesAnswer200 ==
    [][\A r \in Reqs :
          (req[r].pc = "idle" /\ req'[r].route \in {"GET /", "GET /health"})
          => /\ req'[r].pc = "done"
             /\ req'[r].sends = 1
             /\ req'[r].res = GetResponse(req'[r].route)
             /\ req'[r].inserts = 0 /\ req'[r].outcome = "none"
             /\ rows' = rows /\ serial' = serial /\ schema' = schema]_vars

\* GET /health has been answered while the users table held a row.
C23_Witness ==
    \E r1, r2 \in Reqs :
        /\ r1 < r2 /\ ~overlap
        /\ req[r1].outcome = "inserted" /\ rows # {}
        /\ req[r2].route = "GET /health" /\ Done(r2) /\ HttpStatus(r2) = 200

(* -------------------------------- C24 -------------------------------- *)

\* The requests to POST /signin.
Signins == {r \in Reqs : req[r].route = "POST /signin"}

\* The credentials match a stored user: a row has the e-mail address and
\* its password column is the submitted password or a hash of it.
CredentialsMatch(b) ==
    \E u \in rows :
        /\ u.email = b.email
        /\ "password" \in DOMAIN u
        /\ u.password = b.password \/ Verify(b.password, u.password)

\* C24: POST /signin with credentials that do not match a stored user
\* (unknown email or wrong password) is answered with status 401 and
\* never with a success status.
C24_BadCredentialsAre401 ==
    \A r \in Signins :
        (Done(r) /\ ~Falsy(req[r].body.email) /\ ~CredentialsMatch(req[r].body))
        => HttpStatus(r) = 401

(* -------------------------------- C25 -------------------------------- *)

\* The signups handled by the POST /signup handler of server.ts.
InlineSignups == {r \in Signups : build.signup = "inline"}

\* C25: in the inline POST /signup handler the response is never sent
\* before the INSERT issued for that request has completed, and an INSERT
\* that fails is answered with 500 "Internal server error" rather than
\* with a success status.
C25_ResponseAfterInsert ==
    \A r \in InlineSignups :
        ~Falsy(req[r].body.email) =>
            /\ req[r].res # Nil => req[r].outcome # "none"
            /\ req[r].outcome = "error" =>
                  req[r].res = [status |-> 500,
                                body |-> [message |-> Txt("Internal server error")]]

(* -------------------------------- C26 -------------------------------- *)

\* C26: a POST /signup request without an email is rejected with 406
\* "Email is required" and no INSERT is issued for it, so the users table
\* is unchanged.
C26_NoEmailNoInsert ==
    \A r \in InlineSignups :
        Falsy(req[r].body.email) =>
            /\ req[r].res = [status |-> 406, body |-> [message |-> Txt("Email is required")]]
            /\ req[r].sends = 1
            /\ req[r].inserts = 0
            /\ req[r].outcome = "none"

(* -------------------------------- C27 -------------------------------- *)

\* signupHandler when the registerController it awaits rejects.  Neither
\* registerController of controllers/auth.ts can reject on a parsed body,
\* so the rejection is a fault added to the program: the controller
\* throws on entry, before it has validated or answered anything.  The
\* first signupHandler (with the first registerController) logs the error
\* and calls res.json without setting a status; the second (with the
\* second registerController) logs it and returns an object.  code records
\* the fault.
SignupHandlerThrows(r, b) ==
    /\ server = "listening"
    /\ build.signup = "handler"
    /\ Fresh(r)
    /\ Arrival
    /\ logs' = logs \cup
          { Line("success", "Signup endpoint hit", <<>>),
            Line("error", "erro: ${err}", <<Err("THROWN")>>) }
    /\ LET q == [Arrive(r, "POST /signup", b) EXCEPT !.pc = "done", !.code = "THROWN"]
       IN  req' = [req EXCEPT ![r] =
              IF build.controller = 1
              THEN [Send(q, 200, [message |-> Txt("Erro ao cadastrar conta"),
                                  STATUS_CODES |-> Num(500)])
                       EXCEPT !.ret = ResObject]
              ELSE [q EXCEPT !.ret = Plain(500, "Houve um erro no servidor")]]
    /\ UNCHANGED <<server, build, schema, rows, serial, now>>

NextThrow ==
    \/ Next
    \/ \E r \in Reqs, b \in SignupBodies : SignupHandlerThrows(r, b)

\* The program with a registerController that can throw.
SpecThrow == Init /\ [][NextThrow]_vars

\* C27: when registerController throws inside signupHandler, the client
\* receives a response whose HTTP status code is 500.
C27_ThrowIsAnswered500 ==
    \A r \in Signups : req[r].code = "THROWN" => HttpStatus(r) = 500

(* -------------------------------- C28 -------------------------------- *)

\* testDbConnection has succeeded in this process: the users table exists
\* and the start-up has logged the success.
Tested ==
    /\ schema \in Schemas
    /\ Line("success", "Database connection tested successfully", <<>>) \in logs

\* C28: at startup the server begins listening for HTTP requests only
\* after the database connection test has succeeded; if the test fails
\* the process exits with code 1 and never listens, so no request is ever
\* handled without a tested database connection.
C28_ListenOnlyAfterTest ==
    /\ server = "listening" => Tested
    /\ ~Tested => \A r \in Reqs : req[r].pc = "idle"
    /\ (\E r \in Reqs : req[r].pc # "idle") => server # "starting"

\* The connection test has failed: the process has exited and has handled
\* nothing.
C28_Witness ==
    /\ server = "exited"
    /\ ~Tested
    /\ \A r \in Reqs : req[r].pc = "idle"

(* -------------------------------- C29 -------------------------------- *)

\* The process is started again: after it has exited, or after it was
\* stopped while no request was being handled.  The handlers in flight at
\* an exit ended with the process, unanswered; a statement still pending
\* is lost with its connection.  The new process has logged nothing yet.
Restart ==
    /\ server = "exited" \/ (server = "listening" /\ ~InFlight)
    /\ server' = "starting"
    /\ logs' = {}
    /\ req' = [r \in Reqs |->
                  IF req[r].pc \in {"idle", "done"} THEN req[r]
                  ELSE [req[r] EXCEPT !.pc = "done", !.payload = Nil]]
    /\ UNCHANGED <<build, schema, rows, serial, now, overlap>>

NextRestart ==
    \/ Next
    \/ Restart

\* The program with restarts of the server process.
SpecRestart == Init /\ [][NextRestart]_vars

\* C29: starting the server is idempotent with respect to stored data:
\* testDbConnection creates the users table only when it does not exist,
\* so every users row present before a restart is present and unchanged
\* after it.
C29_RestartKeepsRows ==
    [][server # "listening" =>
          /\ rows' = rows
          /\ serial' = serial
          /\ schema \in Schemas => schema' = schema]_vars

\* The server is listening again over a table whose rows were all stored
\* by an earlier process: this one has handled no signup.
C29_Witness ==
    /\ server = "listening"
    /\ rows # {}
    /\ Line("success", "Signup endpoint hit", <<>>) \notin logs
    /\ Tested

(* -------------------------------- C30 -------------------------------- *)

\* The INSERT of request r is pending.
Pending(r) == req[r].pc \in {"query", "hash", "insert"}

\* Request r is alone with its e-mail address: no other signup carries it.
OwnEmail(r) ==
    \A x \in Signups \ {r} : req[x].body # Nil => req[x].body.email # req[r].body.email

\* C30: concurrent signup requests for different emails do not interfere:
\* under every interleaving each valid request creates its own row and
\* receives the same outcome it would receive if it ran alone.
\* (Alone, a request with an email is handled to the end by a process that
\* keeps running, and its INSERT is never turned away as a duplicate.)
C30_NoInterference ==
    \A r \in Signups :
        (req[r].body # Nil /\ ~Falsy(req[r].body.email) /\ OwnEmail(r))
        => /\ Pending(r) => server = "listening"
           /\ req[r].outcome # "nothing"
           /\ req[r].outcome = "error" => req[r].code # "23505"

====
